---- MODULE Spec2Model ----
(***************************************************************************)
(* Model of the merge / deduplication engine and the task reconciler of    *)
(* big5_databases.  A store is the committed content of one SQLite         *)
(* database: the rows of collection_task and of post.  A session is the    *)
(* SQLAlchemy unit of work of DatabaseManager.get_session: objects staged  *)
(* with add() (new), attribute changes on loaded rows (dirty), and the     *)
(* rows already flushed inside the open transaction.                       *)
(***************************************************************************)
EXTENDS Integers, Sequences, FiniteSets, TLC

\* ------------------------------------------------------------------ bounds
MaxPid == 2          \* platform ids are 1..MaxPid
MaxRuns == 2         \* merge_database calls in one behaviour
MaxList == 2         \* length of a post list passed to a submit operation
MaxTasks == 2        \* length of a task list passed to add_db_collection_tasks
MaxCalls == 1        \* calls of a task operation of the store in one behaviour

\* ------------------------------------------------------- program constants
NULL == -1           \* None / SQL NULL of a nullable integer column
batch_size == 500

CollectionStatus == {"INIT", "INVALID_CONF", "RUNNING", "PAUSED", "ABORTED", "DONE"}

\* The declared fields of CollectConfig that the model keeps.
ConfigKeys == {"query", "limit"}

\* source_db_path.as_posix()
SourceRef == "source.sqlite"

NoStats ==
  [total_posts_found |-> 0, duplicated_posts_skipped |-> 0, new_posts_added |-> 0,
   existing_tasks_updated |-> 0, new_tasks_created |-> 0]

VARIABLES
  source,      \* committed rows of the source store: [tasks, posts]
  target,      \* committed rows of the target store: [tasks, posts]
  sess,        \* the target session of the running merge
  pc,          \* position of merge_database: idle, filter, process, done, failed
  remaining,   \* ids of the source tasks the generator has not yielded yet
  cur,         \* the (task_model, new_posts) of the current loop iteration
  stats,       \* MergeStats
  pre,         \* the target store as it was when the running merge began
  runs,        \* number of merge_database calls started
  completed,   \* number of merge_database calls that returned their stats
  call,        \* the call of another operation in flight or just returned: [op, ...]
  calls,       \* number of add_db_collection_tasks calls made
  comments,    \* the post ids that rows of the comment table of the target refer to
  registry,    \* the meta database and the disk: [dbs (rows of platform_databases), files]
  origin       \* history: the target store before the first operation of the behaviour

vars == <<source, target, sess, pc, remaining, cur, stats, pre, runs, completed, call, calls, comments, registry, origin>>

\* ------------------------------------------------------------------ helpers
Max(S) == CHOOSE x \in S : \A y \in S : y <= x

PlatformIds(posts) == {p.platform_id : p \in posts}

\* INTEGER PRIMARY KEY of SQLite: the next rowid is the largest one plus one.
NextId(rows) == IF rows = {} THEN 1 ELSE Max({r.id : r \in rows}) + 1

\* (x or 0)
OrZero(x) == IF x = NULL THEN 0 ELSE x

\* The rows of a result set in rowid order, as a list.
RECURSIVE RowsById(_)
RowsById(rows) ==
  IF rows = {} THEN <<>>
  ELSE LET r == CHOOSE x \in rows : \A y \in rows : x.id <= y.id
       IN <<r>> \o RowsById(rows \ {r})

\* CollectConfig.model_validate(json): every declared field, None when absent.
CollectConfigValidate(json) ==
  [k \in ConfigKeys |-> IF k \in DOMAIN json THEN json[k] ELSE NULL]

\* CollectConfig.model_dump(): all declared fields, defaults written out.
CollectConfigDump(cfg) == [k \in ConfigKeys |-> cfg[k]]

\* CollectConfig.model_dump(exclude_defaults=True, exclude_unset=True)
CollectConfigDumpSparse(cfg) ==
  [k \in {x \in ConfigKeys : cfg[x] # NULL} |-> cfg[k]]

\* DBCollectionTask.model(): CollectionTaskModel.model_validate(row)
TaskModel(t) ==
  [id |-> t.id, task_name |-> t.task_name, platform |-> t.platform,
   collection_config |-> CollectConfigValidate(t.collection_config),
   found_items |-> t.found_items, added_items |-> t.added_items,
   status |-> t.status, transient |-> t.transient]

\* DBPost.model(): PostModel.model_validate(row); metadata_content keeps orig_db_conf
PostModel(p) ==
  [id |-> p.id, platform_id |-> p.platform_id,
   collection_task_id |-> p.collection_task_id, orig_db_conf |-> p.orig_db_conf]

\* get_tasks_with_posts: the posts of one task, converted to models
PostsOfTask(db, tid) ==
  LET rows == RowsById({p \in db.posts : p.collection_task_id = tid})
  IN [i \in 1..Len(rows) |-> PostModel(rows[i])]

\* The rows a query of the session sees: its own transaction once it wrote,
\* the committed store otherwise.
View == IF sess.intx THEN [tasks |-> sess.tasks, posts |-> sess.posts] ELSE target

ClosedSession == [intx |-> FALSE, tasks |-> {}, posts |-> {}, new |-> <<>>, dirty |-> {}]

\* ------------------------------------------------------------ the database
\* Variant: the post table has no unique constraint.
UniqueViolationOff(posts, new) == FALSE

\* uq_platform_id: an INSERT of the rows `new` into `posts` violates the unique
\* constraint when a platform_id is already stored or occurs twice in `new`.
UniqueViolation(posts, new) ==
  \/ \E i \in 1..Len(new) : new[i].platform_id \in PlatformIds(posts)
  \/ \E i, j \in 1..Len(new) : i < j /\ new[i].platform_id = new[j].platform_id

\* INSERT the staged posts in the order they were added; each gets the next rowid.
RECURSIVE InsertPosts(_, _)
InsertPosts(posts, new) ==
  IF new = <<>> THEN posts
  ELSE InsertPosts(
         posts \cup {[id |-> NextId(posts), platform_id |-> Head(new).platform_id,
                      collection_task_id |-> Head(new).collection_task_id,
                      orig_db_conf |-> Head(new).orig_db_conf]},
         Tail(new))

\* UPDATE of the loaded rows whose attributes were changed.
UpdateTasks(tasks, dirty) ==
  {t \in tasks : t.id \notin {d.id : d \in dirty}} \cup dirty

\* Session.flush(): the UPDATEs of dirty rows, then the INSERTs of new rows.
\* ok = FALSE is the IntegrityError of the unique constraint.
Flush(rows, dirty, new) ==
  [ok |-> ~UniqueViolation(rows.posts, new),
   tasks |-> UpdateTasks(rows.tasks, dirty),
   posts |-> InsertPosts(rows.posts, new)]

\* The session after a successful (auto)flush: a flush with nothing to write
\* emits no statement and opens no transaction.
Flushed(s, rows) ==
  IF s.new = <<>> /\ s.dirty = {} THEN s
  ELSE LET fl == Flush(rows, s.dirty, s.new)
       IN [intx |-> TRUE, tasks |-> fl.tasks, posts |-> fl.posts,
           new |-> <<>>, dirty |-> {}]

\* ------------------------------------------------------------ Deduplicator
\* Variant: the query result is ignored and every post is returned.
filter_posts_keep_all(posts, stored) == posts

\* Variant: the posts are compared with the posts the target held before the
\* first merge, not with the posts it holds now.
filter_posts_against_origin(posts, stored) ==
  LET NotFound(p) == p.platform_id \notin PlatformIds(origin.posts)
  IN SelectSeq(posts, NotFound)

\* Variant: of the posts of the list with the same platform_id only the first is returned.
RECURSIVE filter_posts_drop_repeats(_, _)
filter_posts_drop_repeats(posts, stored) ==
  IF posts = <<>> THEN <<>>
  ELSE (IF Head(posts).platform_id \in PlatformIds(stored) THEN <<>> ELSE <<Head(posts)>>)
         \o filter_posts_drop_repeats(Tail(posts), stored \cup {Head(posts)})

filter_posts_with_existing_post_ids(posts, stored) ==
  LET post_ids == {posts[i].platform_id : i \in 1..Len(posts)}
      found_post_ids == {q.platform_id : q \in {r \in stored : r.platform_id \in post_ids}}
      Keep(p) == p.platform_id \notin found_post_ids
  IN SelectSeq(posts, Keep)

\* ------------------------------------------------------------- MergeEngine
\* Variant: the counters are overwritten with the number of new posts.
UpdateExistingTaskOverwrite(existing_task, task_model, num_new_posts) ==
  [existing_task EXCEPT
     !.found_items = num_new_posts,
     !.added_items = num_new_posts,
     !.status = IF task_model.status = "DONE" THEN "DONE" ELSE @]

\* Variant: the status of the source task is copied unconditionally.
UpdateExistingTaskCopyStatus(existing_task, task_model, num_new_posts) ==
  [existing_task EXCEPT
     !.found_items = OrZero(@) + num_new_posts,
     !.added_items = OrZero(@) + num_new_posts,
     !.status = task_model.status]

\* process_collection_task, the branch of an existing task (lines 108-115)
UpdateExistingTask(existing_task, task_model, num_new_posts) ==
  [existing_task EXCEPT
     !.found_items = OrZero(@) + num_new_posts,
     !.added_items = OrZero(@) + num_new_posts,
     !.status = IF task_model.status = "DONE" THEN "DONE" ELSE @]

\* Variant: the counters of the source task are kept.
CreateNewTaskKeepCounters(task_model, num_new_posts, id) ==
  [id |-> id, task_name |-> task_model.task_name, platform |-> task_model.platform,
   collection_config |-> CollectConfigDump(task_model.collection_config),
   found_items |-> task_model.found_items, added_items |-> task_model.added_items,
   status |-> task_model.status, transient |-> task_model.transient]

\* process_collection_task, the branch of a new task (lines 116-124):
\* DBCollectionTask(**task_model.model_dump(exclude={"id"})), counters overwritten,
\* the id generated by the flush.
CreateNewTask(task_model, num_new_posts, id) ==
  [id |-> id, task_name |-> task_model.task_name, platform |-> task_model.platform,
   collection_config |-> CollectConfigDump(task_model.collection_config),
   found_items |-> num_new_posts, added_items |-> num_new_posts,
   status |-> task_model.status, transient |-> task_model.transient]

\* Variant: the post keeps the task id it had in the source.
StagePostKeepTask(post, target_task, source_ref) ==
  [platform_id |-> post.platform_id,
   collection_task_id |-> post.collection_task_id,
   orig_db_conf |-> <<source_ref, post.collection_task_id>>]

\* The loop body over new_posts (lines 82-92): the task id is rewritten first and
\* the provenance is read from the rewritten field.
StagePost(post, target_task, source_ref) ==
  LET reparented == [post EXCEPT !.collection_task_id = target_task.id]
      stamped == [reparented EXCEPT
                    !.orig_db_conf = <<source_ref, reparented.collection_task_id>>]
  IN [platform_id |-> stamped.platform_id,
      collection_task_id |-> stamped.collection_task_id,
      orig_db_conf |-> stamped.orig_db_conf]

StagePosts(new_posts, target_task, source_ref) ==
  [i \in 1..Len(new_posts) |-> StagePost(new_posts[i], target_task, source_ref)]

\* Variant: every post found is counted as added.
CountPostsAllAdded(st, posts_models, new_posts) ==
  [st EXCEPT
     !.total_posts_found = @ + Len(posts_models),
     !.duplicated_posts_skipped = @ + Len(posts_models) - Len(new_posts),
     !.new_posts_added = @ + Len(posts_models)]

\* The post counters of MergeStats (lines 66, 70, 71)
CountPosts(st, posts_models, new_posts) ==
  [st EXCEPT
     !.total_posts_found = @ + Len(posts_models),
     !.duplicated_posts_skipped = @ + Len(posts_models) - Len(new_posts),
     !.new_posts_added = @ + Len(new_posts)]

NoCall == [op |-> "none"]

\* A meta database without rows, no database file on the disk.
NoRegistry == [dbs |-> {}, files |-> {}]

NoCur == [task |-> <<>>, new_posts |-> <<>>]

\* merge_database is called: managers, stats, the target session is opened.
MergeBegin ==
  /\ pc \in {"idle", "done", "failed"}
  /\ runs < MaxRuns
  /\ runs' = runs + 1
  /\ pc' = "filter"
  /\ remaining' = {t.id : t \in source.tasks}
  /\ stats' = NoStats
  /\ pre' = target
  /\ sess' = ClosedSession
  /\ cur' = NoCur
  /\ call' = NoCall
  /\ UNCHANGED <<source, target, completed, calls, comments, registry, origin>>

\* Variant: the exception leaves the with block and what was flushed is kept.
MergeRaiseNoRollback ==
  /\ pc' = "failed"
  /\ sess' = ClosedSession
  /\ cur' = NoCur
  /\ target' = View
  /\ UNCHANGED <<source, remaining, stats, pre, runs, completed, call, calls, comments, registry, origin>>

\* Variant: the rollback undoes the inserted posts and keeps the task rows
\* that were flushed.
MergeRaiseKeepTasks ==
  /\ pc' = "failed"
  /\ sess' = ClosedSession
  /\ cur' = NoCur
  /\ target' = [target EXCEPT !.tasks = View.tasks]
  /\ UNCHANGED <<source, remaining, stats, pre, runs, completed, call, calls, comments, registry, origin>>

\* The exception leaves the with block: rollback, close, re-raise.
MergeRaise ==
  /\ pc' = "failed"
  /\ sess' = ClosedSession
  /\ cur' = NoCur
  /\ UNCHANGED <<source, target, remaining, stats, pre, runs, completed, call, calls, comments, registry, origin>>

\* Lines 65-71: the generator yields the next task with its posts; the
\* deduplication query autoflushes the session and reads the target.
MergeFilter ==
  /\ pc = "filter"
  /\ \E tid \in remaining :
       LET task_model == TaskModel(CHOOSE t \in source.tasks : t.id = tid)
           posts_models == PostsOfTask(source, tid)
           rows == View
       IN IF UniqueViolation(rows.posts, sess.new)
          THEN MergeRaise
          ELSE LET flushed == Flushed(sess, rows)
                   seen == IF flushed.intx THEN flushed.posts ELSE target.posts
                   new_posts == filter_posts_with_existing_post_ids(posts_models, seen)
               IN /\ sess' = flushed
                  /\ cur' = [task |-> task_model, new_posts |-> new_posts]
                  /\ stats' = CountPosts(stats, posts_models, new_posts)
                  /\ remaining' = remaining \ {tid}
                  /\ pc' = "process"
                  /\ UNCHANGED <<source, target, pre, runs, completed, call, calls, comments, registry, origin>>

\* Variant: the merge works on the rows of the source session themselves, and
\* the source session writes the re-parented, stamped rows back.
SourceFlushAttached(src, new_posts, staged) ==
  LET Staged(p) == {i \in 1..Len(new_posts) : new_posts[i].id = p.id}
      Written(p) == LET i == CHOOSE k \in Staged(p) : TRUE
                    IN [p EXCEPT !.collection_task_id = staged[i].collection_task_id,
                                 !.orig_db_conf = staged[i].orig_db_conf]
  IN [src EXCEPT !.posts = {IF Staged(p) = {} THEN p ELSE Written(p) : p \in @}]

\* The source session of get_tasks_with_posts: it only selects, and what the
\* merge changes are the models built by .model(), not the rows the session
\* loaded, so the session has nothing to write when it flushes or commits.
SourceFlush(src, new_posts, staged) == src

\* Lines 74-96: process_collection_task, the posts are staged, and the session
\* is committed when at least size objects are pending.
ProcessTask(size) ==
  /\ LET rows == View
         n == Len(cur.new_posts)
         found == {t \in rows.tasks : t.task_name = cur.task.task_name}
         existing_task == CHOOSE t \in found : TRUE
         target_task == IF found # {}
                        THEN UpdateExistingTask(existing_task, cur.task, n)
                        ELSE CreateNewTask(cur.task, n, NextId(rows.tasks))
         staged == StagePosts(cur.new_posts, target_task, SourceRef)
         after == IF found # {}
                  THEN [sess EXCEPT !.dirty = {target_task}, !.new = staged]
                  ELSE [intx |-> TRUE, tasks |-> rows.tasks \cup {target_task},
                        posts |-> rows.posts, new |-> staged, dirty |-> {}]
         after_rows == IF after.intx THEN [tasks |-> after.tasks, posts |-> after.posts]
                       ELSE target
     IN /\ stats' = IF found # {}
                    THEN [stats EXCEPT !.existing_tasks_updated = @ + 1]
                    ELSE [stats EXCEPT !.new_tasks_created = @ + 1]
        /\ IF Len(after.new) >= size
           THEN IF UniqueViolation(after_rows.posts, after.new)
                THEN /\ pc' = "failed"
                     /\ sess' = ClosedSession
                     /\ cur' = NoCur
                     /\ UNCHANGED target
                ELSE LET fl == Flush(after_rows, after.dirty, after.new)
                     IN /\ target' = [tasks |-> fl.tasks, posts |-> fl.posts]
                        /\ sess' = ClosedSession
                        /\ cur' = NoCur
                        /\ pc' = "filter"
           ELSE /\ sess' = after
                /\ cur' = NoCur
                /\ pc' = "filter"
                /\ UNCHANGED target
        /\ source' = SourceFlush(source, cur.new_posts, staged)
        /\ UNCHANGED <<remaining, pre, runs, completed, call, calls, comments, registry, origin>>

\* Lines 61, 95: the step with the program's batch_size.
MergeProcess ==
  /\ pc = "process"
  /\ ProcessTask(batch_size)

\* The loop ends and the with block is left: get_session commits and closes.
MergeFinish ==
  /\ pc = "filter"
  /\ remaining = {}
  /\ LET rows == View
     IN IF UniqueViolation(rows.posts, sess.new)
        THEN MergeRaise
        ELSE LET fl == Flush(rows, sess.dirty, sess.new)
             IN /\ target' = [tasks |-> fl.tasks, posts |-> fl.posts]
                /\ sess' = ClosedSession
                /\ cur' = NoCur
                /\ pc' = "done"
                /\ completed' = completed + 1
                /\ UNCHANGED <<source, remaining, stats, pre, runs, call, calls, comments, registry, origin>>

\* ----------------------------------------------------------- initial stores
Pids == 1..MaxPid

\* Task names are strings; the model writes a string as the list of its characters.
TaskA == <<"t", "1">>
TaskB == <<"t", "2">>

\* A collection_task row as add_db_collection_tasks writes it (lines 314-321),
\* with the counters a later update may have set.
TaskRow(id, task_name, status, config, items, transient) ==
  [id |-> id, task_name |-> task_name, platform |-> "youtube",
   collection_config |-> config, found_items |-> items, added_items |-> items,
   status |-> status, transient |-> transient]

\* A post row as a collector stores it: no provenance.
PostRow(pid, tid) ==
  [id |-> pid, platform_id |-> pid, collection_task_id |-> tid, orig_db_conf |-> <<>>]

Config1 == CollectConfigDumpSparse([query |-> 1, limit |-> NULL])
Config2 == CollectConfigDumpSparse([query |-> 2, limit |-> 5])

OwnedBy(own, tid) == Cardinality({p \in DOMAIN own : own[p] = tid})

\* The source store: task t1 (id 2), optionally task t2 (id 1); every platform id
\* is absent, orphaned (NULL owner) or owned by one of the tasks.
SourceStore(hasB, statusA, own) ==
  [tasks |-> {TaskRow(2, TaskA, statusA, Config1, OwnedBy(own, 2), FALSE)}
             \cup (IF hasB THEN {TaskRow(1, TaskB, "DONE", Config2, OwnedBy(own, 1), TRUE)}
                   ELSE {}),
   posts |-> {PostRow(p, own[p]) : p \in DOMAIN own}]

\* The target store: any of t1 (id 1) and t2 (id 2); its posts belong to the
\* first task it has, or to none.
TargetStore(hasA, hasB, statusA, itemsA, present) ==
  LET owner == IF hasA THEN 1 ELSE IF hasB THEN 2 ELSE NULL
  IN [tasks |-> (IF hasA THEN {TaskRow(1, TaskA, statusA, Config1, itemsA, FALSE)} ELSE {})
                \cup (IF hasB THEN {TaskRow(2, TaskB, "INIT", Config2, NULL, FALSE)} ELSE {}),
      posts |-> {PostRow(p, owner) : p \in present}]

InitStatuses == {"INIT", "RUNNING", "DONE"}

InitStores ==
  /\ \E hasB \in BOOLEAN, statusA \in InitStatuses, S \in SUBSET Pids :
       \E own \in [S -> {NULL, 2} \cup (IF hasB THEN {1} ELSE {})] :
         source = SourceStore(hasB, statusA, own)
  /\ \E hasA \in BOOLEAN, hasB \in BOOLEAN, statusA \in InitStatuses,
        present \in SUBSET Pids :
       \E itemsA \in {NULL, Cardinality(present)} :
         /\ (~hasA => statusA = "INIT" /\ itemsA = NULL)
         /\ target = TargetStore(hasA, hasB, statusA, itemsA, present)

Init ==
  /\ InitStores
  /\ sess = ClosedSession
  /\ pc = "idle"
  /\ remaining = {}
  /\ cur = NoCur
  /\ stats = NoStats
  /\ pre = target
  /\ runs = 0
  /\ completed = 0
  /\ call = NoCall
  /\ calls = 0
  /\ comments = {}
  /\ registry = NoRegistry
  /\ origin = target

Next ==
  \/ MergeBegin
  \/ MergeFilter
  \/ MergeProcess
  \/ MergeFinish

Spec == Init /\ [][Next]_vars

\* ---- merge with batch commits and interruptions
\* No store of a bounded model holds batch_size posts, so the commit of line 96
\* is never taken in Spec. In SpecBatches a task with at least ModelBatch new
\* posts may also be processed as a task that reaches the threshold, and the
\* merge can be interrupted.
ModelBatch == 1      \* the new posts of a task that can stand for batch_size posts

MergeProcessBatch ==
  /\ pc = "process"
  /\ ProcessTask(ModelBatch)

\* The process is killed or an exception leaves the with block anywhere in the
\* loop: the open transaction is rolled back, what was committed stays.
MergeInterrupt ==
  /\ pc \in {"filter", "process"}
  /\ MergeRaise

NextBatches ==
  \/ MergeBegin
  \/ MergeFilter
  \/ MergeProcess
  \/ MergeProcessBatch
  \/ MergeFinish
  \/ MergeInterrupt

SpecBatches == Init /\ [][NextBatches]_vars

\* --------------------------------------------------------- post submission
AtRest == pc \in {"idle", "done", "failed"}

\* The post lists a collector passes in: platform ids, repeated ones included.
PostInputs == UNION {[1..n -> Pids] : n \in 1..MaxList}

\* A DBPost built by a collector for task tid.
NewPost(pid, tid) == [platform_id |-> pid, collection_task_id |-> tid, orig_db_conf |-> <<>>]

PostList(pids, tid) == [i \in 1..Len(pids) |-> NewPost(pids[i], tid)]

TaskIds(db) == {t.id : t \in db.tasks}

\* insert_posts_with_deduplication, lines 357-362: first occurrence of each id
RECURSIVE UniquePosts(_, _)
UniquePosts(posts, posts_ids) ==
  IF posts = <<>> THEN <<>>
  ELSE IF Head(posts).platform_id \notin posts_ids
       THEN <<Head(posts)>> \o UniquePosts(Tail(posts), posts_ids \cup {Head(posts).platform_id})
       ELSE UniquePosts(Tail(posts), posts_ids)

\* The frame of the operations that are no merge.
MergeIdle == UNCHANGED <<source, sess, remaining, cur, stats, pre, runs, completed, calls, comments, registry, origin>>

\* insert_posts_with_deduplication, lines 355-367: the list is deduplicated and
\* filtered against the ids the store holds now.
InsertDedupCheck ==
  /\ AtRest
  /\ \E pids \in PostInputs, tid \in {NULL} \cup TaskIds(target) :
       LET posts == PostList(pids, tid)
           unique_posts == UniquePosts(posts, {})
           posts_ids == {posts[i].platform_id : i \in 1..Len(posts)}
           existing_ids == {q.platform_id : q \in {r \in target.posts : r.platform_id \in posts_ids}}
           Keep(post) == post.platform_id \notin existing_ids
           filtered_posts == SelectSeq(unique_posts, Keep)
       IN call' = [op |-> "insert_posts_with_deduplication", posts |-> filtered_posts]
  /\ pc' = "insert_write"
  /\ UNCHANGED target
  /\ MergeIdle

\* insert_posts_with_deduplication, lines 369-371: add_all and commit; an
\* IntegrityError leaves the with block of get_session (rollback, re-raise).
InsertDedupWrite ==
  /\ pc = "insert_write"
  /\ IF UniqueViolation(target.posts, call.posts)
     THEN /\ call' = [op |-> "insert_posts_with_deduplication", raised |-> TRUE]
          /\ UNCHANGED target
     ELSE /\ call' = [op |-> "insert_posts_with_deduplication", ret |-> call.posts]
          /\ target' = [target EXCEPT !.posts = InsertPosts(@, call.posts)]
  /\ pc' = "idle"
  /\ MergeIdle

\* DatabaseManager.safe_submit_posts, lines 145-149: _submit_posts adds the whole
\* list and commits; on success the list is returned.
SafeSubmitPosts ==
  /\ AtRest
  /\ \E pids \in PostInputs, tid \in {NULL} \cup TaskIds(target) :
       LET posts == PostList(pids, tid)
       IN IF UniqueViolation(target.posts, posts)
          THEN /\ call' = [op |-> "safe_submit_posts", posts |-> posts, attempts |-> 1]
               /\ pc' = "submit_filter"
               /\ UNCHANGED target
          ELSE /\ call' = [op |-> "safe_submit_posts", ret |-> posts, attempts |-> 1]
               /\ pc' = "idle"
               /\ target' = [target EXCEPT !.posts = InsertPosts(@, posts)]
  /\ MergeIdle

\* DatabaseManager.safe_submit_posts, lines 150-153: after the IntegrityError the
\* list is filtered in a new session and the filtered list is returned.
SafeSubmitFilter ==
  /\ pc = "submit_filter"
  /\ call' = [op |-> "safe_submit_posts",
              ret |-> filter_posts_with_existing_post_ids(call.posts, target.posts),
              attempts |-> call.attempts]
  /\ pc' = "idle"
  /\ UNCHANGED target
  /\ MergeIdle

\* Another process submits one post to the target store and commits.  SQLite
\* admits one writer: it cannot write while the merge session holds a
\* transaction with flushed rows.
ExternalInsert ==
  /\ ~sess.intx
  /\ \E pid \in Pids :
       /\ ~UniqueViolation(target.posts, <<NewPost(pid, NULL)>>)
       /\ target' = [target EXCEPT !.posts = InsertPosts(@, <<NewPost(pid, NULL)>>)]
  /\ UNCHANGED <<source, sess, pc, remaining, cur, stats, pre, runs, completed, call, calls, comments, registry, origin>>

\* Stores for the runs with concurrent writers: both source tasks own posts, the
\* target may hold task t1.
InitWriters ==
  /\ \E S \in SUBSET Pids : \E own \in [S -> {1, 2}] :
       source = SourceStore(TRUE, "DONE", own)
  /\ \E hasA \in BOOLEAN, present \in SUBSET Pids :
       target = TargetStore(hasA, FALSE, "INIT", NULL, present)
  /\ sess = ClosedSession
  /\ pc = "idle"
  /\ remaining = {}
  /\ cur = NoCur
  /\ stats = NoStats
  /\ pre = target
  /\ runs = 0
  /\ completed = 0
  /\ call = NoCall
  /\ calls = 0
  /\ comments = {}
  /\ registry = NoRegistry
  /\ origin = target

NextWriters ==
  \/ MergeBegin
  \/ MergeFilter
  \/ MergeProcess
  \/ MergeFinish
  \/ InsertDedupCheck
  \/ InsertDedupWrite
  \/ SafeSubmitPosts
  \/ SafeSubmitFilter
  \/ ExternalInsert

SpecWriters == InitWriters /\ [][NextWriters]_vars

\* ------------------------------------------------------- check_for_conflicts
\* Variant: a hash that tells no two configs apart.
DeepHashBlind(conf) == 0

\* DeepHash(conf)[conf], lines 192-193: the hash of the fields of the validated
\* CollectConfig, whatever the order the stored JSON lists them in.  Two configs
\* have the same hash exactly when every declared field has the same value.
DeepHash(conf) == {<<k, conf[k]>> : k \in ConfigKeys}

TaskNames(db) == {t.task_name : t \in db.tasks}

\* src_map / tgt_map, lines 162-163
TaskByName(db, name) == TaskModel(CHOOSE t \in db.tasks : t.task_name = name)

SameHash(src, tgt) == DeepHash(src.collection_config) = DeepHash(tgt.collection_config)

\* The counters and lists of lines 165-216 over the names in both stores.  The
\* loop runs over a Python set, so the lists are kept as sets of task names.
ConflictReport(src_db, tgt_db) ==
  LET existing == TaskNames(src_db) \cap TaskNames(tgt_db)
      src(n) == TaskByName(src_db, n)
      tgt(n) == TaskByName(tgt_db, n)
      same == {n \in existing : SameHash(src(n), tgt(n))}
      same_status == {n \in same : src(n).status = tgt(n).status}
      both_done == {n \in same_status : src(n).status = "DONE"}
  IN [op |-> "check_for_conflicts",
      num_match |-> Cardinality(existing),
      diff_both_init |-> Cardinality({n \in same_status : src(n).status = "INIT"}),
      diff_both_done |-> Cardinality(both_done),
      diff_fount_posts |->
        Cardinality({n \in both_done : src(n).found_items # tgt(n).found_items}),
      diff_both_other_status |-> 0,
      diff_both_other_status_ |-> {n \in same_status : src(n).status \notin {"INIT", "DONE"}},
      diff_status |-> Cardinality(same \ same_status),
      target_done_ |->
        {n \in same \ same_status : src(n).status = "INIT" /\ tgt(n).status = "DONE"},
      source_done_ |->
        {n \in same \ same_status : src(n).status = "DONE" /\ tgt(n).status = "INIT"},
      diff_config |-> Cardinality(existing \ same)]

\* check_for_conflicts, lines 127-234.  Every session it opens only reads, and
\* update_task (lines 177-185) loads the posts and the target task and drops
\* them; the report is printed.
check_for_conflicts ==
  /\ AtRest
  /\ call' = ConflictReport(source, target)
  /\ UNCHANGED <<source, target, sess, pc, remaining, cur, stats, pre, runs, completed, calls, comments, registry, origin>>

\* The same config as Config1 with the defaults written out, as a merge stores it.
Config1Full == CollectConfigDump(CollectConfigValidate(Config1))

ConfigJsons == {Config1, Config1Full, Config2}

\* Stores for the conflict analysis: task t1 is in both stores with any status
\* and config; task t2 may be in either, DONE in the source.
InitConflicts ==
  /\ \E sA \in InitStatuses, cA \in ConfigJsons, hasB \in BOOLEAN, S \in SUBSET Pids :
       \E own \in [S -> {2} \cup (IF hasB THEN {1} ELSE {})] :
         source =
           [tasks |-> {TaskRow(2, TaskA, sA, cA, OwnedBy(own, 2), FALSE)}
                      \cup (IF hasB
                            THEN {TaskRow(1, TaskB, "DONE", Config2, OwnedBy(own, 1), FALSE)}
                            ELSE {}),
            posts |-> {PostRow(p, own[p]) : p \in S}]
  /\ \E sA \in InitStatuses, cA \in ConfigJsons, hasB \in BOOLEAN,
        sB \in {"INIT", "DONE"}, cB \in {Config1, Config2}, present \in SUBSET Pids :
       target =
         [tasks |-> {TaskRow(1, TaskA, sA, cA, Cardinality(present), FALSE)}
                    \cup (IF hasB THEN {TaskRow(2, TaskB, sB, cB, NULL, FALSE)} ELSE {}),
          posts |-> {PostRow(p, 1) : p \in present}]
  /\ sess = ClosedSession
  /\ pc = "idle"
  /\ remaining = {}
  /\ cur = NoCur
  /\ stats = NoStats
  /\ pre = target
  /\ runs = 0
  /\ completed = 0
  /\ call = NoCall
  /\ calls = 0
  /\ comments = {}
  /\ registry = NoRegistry
  /\ origin = target

NextConflicts == check_for_conflicts

SpecConflicts == InitConflicts /\ [][NextConflicts]_vars

\* -------------------------------------------------- strings of task names
Digits == <<"0", "1", "2", "3", "4", "5", "6", "7", "8", "9">>

IsDigit(c) == \E d \in 1..10 : Digits[d] = c

DigitValue(c) == (CHOOSE d \in 1..10 : Digits[d] = c) - 1

\* str(n) of a non-negative integer, inside the f-string of line 291
RECURSIVE Str(_)
Str(n) == IF n < 10 THEN <<Digits[n + 1]>>
          ELSE Str(n \div 10) \o <<Digits[(n % 10) + 1]>>

StartsWith(s, prefix) == Len(s) >= Len(prefix) /\ SubSeq(s, 1, Len(prefix)) = prefix

\* str.removeprefix: the string without the prefix, or the string itself
removeprefix(s, prefix) ==
  IF StartsWith(s, prefix) THEN SubSeq(s, Len(prefix) + 1, Len(s)) ELSE s

\* task_name LIKE '<group_prefix>_%': the prefix, then '_' (any one character),
\* then '%' (any characters).  The alphabet of the model has lower-case letters
\* only, and its prefixes contain no wildcard of their own.
Like(name, group_prefix) ==
  /\ Len(name) >= Len(group_prefix) + 1
  /\ SubSeq(name, 1, Len(group_prefix)) = group_prefix

\* The strings int() accepts, over the alphabet of the model: decimal digits,
\* with single underscores between digits.  Any other string raises ValueError.
IsIntLiteral(s) ==
  /\ s # <<>>
  /\ \A i \in 1..Len(s) : IsDigit(s[i]) \/ s[i] = "_"
  /\ IsDigit(s[1]) /\ IsDigit(s[Len(s)])
  /\ \A i \in 1..(Len(s) - 1) : ~(s[i] = "_" /\ s[i + 1] = "_")

\* int(s) of such a string
RECURSIVE IntValue(_)
IntValue(s) ==
  IF s = <<>> THEN 0
  ELSE IF s[Len(s)] = "_" THEN IntValue(SubSeq(s, 1, Len(s) - 1))
  ELSE 10 * IntValue(SubSeq(s, 1, Len(s) - 1)) + DigitValue(s[Len(s)])

\* ------------------------------------------------ add_db_collection_tasks
Group == <<"g">>
G0 == <<"g", "_", "0">>
G1 == <<"g", "_", "1">>
G2 == <<"g", "_", "2">>
GX == <<"g", "_", "x">>

\* A ClientTaskConfig, with the fields add_db_collection_tasks reads.
ClientTaskConfig(task_name, overwrite, keep_old_posts, force_new_index) ==
  [task_name |-> task_name, platform |-> "youtube",
   collection_config |-> CollectConfigValidate(Config1), transient |-> FALSE,
   overwrite |-> overwrite, keep_old_posts |-> keep_old_posts,
   group_prefix |-> Group, force_new_index |-> force_new_index, status |-> "INIT"]

\* The candidates: a name, and one of skip, new index, overwrite, overwrite that
\* keeps the posts, overwrite with the new-index flag set as well.
Candidates ==
  {ClientTaskConfig(n, m[1], m[2], m[3]) :
     n \in {G0, G1, TaskA},
     m \in {<<FALSE, FALSE, FALSE>>, <<FALSE, FALSE, TRUE>>, <<TRUE, FALSE, FALSE>>,
            <<TRUE, TRUE, FALSE>>, <<TRUE, FALSE, TRUE>>}}

TaskInputs == UNION {[1..n -> Candidates] : n \in 1..MaxTasks}

\* check_task_names_exists, lines 220-225
check_task_names_exists(db, task_names) == {n \in TaskNames(db) : n \in task_names}

\* comment.post_id REFERENCES post(id), with no ON DELETE action: the DELETE of
\* delete_tasks fails with an IntegrityError when the cascade would delete a
\* post that a comment refers to.
DeleteViolatesForeignKey(db, task_names_keep_info, comment_post_ids) ==
  LET info == {task_names_keep_info[i] : i \in 1..Len(task_names_keep_info)}
      keep_posts_of_tasks == {ti[1] : ti \in {x \in info : x[2]}}
      keep_posts_ids == {t.id : t \in {x \in db.tasks : x.task_name \in keep_posts_of_tasks}}
      deleted_ids == {t.id : t \in {x \in db.tasks : x.task_name \in {ti[1] : ti \in info}}}
  IN \E p \in db.posts :
       /\ p.id \in comment_post_ids
       /\ p.collection_task_id \in deleted_ids \ keep_posts_ids

\* Variant: delete_tasks on a connection that does not enforce foreign keys:
\* the posts of a deleted task stay as they are.
delete_tasks_no_cascade(db, task_names_keep_info) ==
  LET info == {task_names_keep_info[i] : i \in 1..Len(task_names_keep_info)}
      keep_posts_of_tasks == {ti[1] : ti \in {x \in info : x[2]}}
      keep_posts_ids == {t.id : t \in {x \in db.tasks : x.task_name \in keep_posts_of_tasks}}
      task_names == {ti[1] : ti \in info}
  IN [tasks |-> {t \in db.tasks : t.task_name \notin task_names},
      posts |-> {IF p.collection_task_id \in keep_posts_ids
                 THEN [p EXCEPT !.collection_task_id = NULL] ELSE p : p \in db.posts}]

\* Variant: delete_tasks that unlinks no post.
delete_tasks_no_unlink(db, task_names_keep_info) ==
  LET task_names == {task_names_keep_info[i][1] : i \in 1..Len(task_names_keep_info)}
      deleted_ids == {t.id : t \in {x \in db.tasks : x.task_name \in task_names}}
  IN [tasks |-> {t \in db.tasks : t.task_name \notin task_names},
      posts |-> {p \in db.posts : p.collection_task_id \notin deleted_ids}]

\* delete_tasks, lines 227-251: the posts of the tasks to keep posts of are
\* unlinked, the tasks are deleted, and ON DELETE CASCADE deletes the posts that
\* still point to a deleted task.
delete_tasks(db, task_names_keep_info) ==
  LET info == {task_names_keep_info[i] : i \in 1..Len(task_names_keep_info)}
      keep_posts_of_tasks == {ti[1] : ti \in {x \in info : x[2]}}
      keep_posts_ids == {t.id : t \in {x \in db.tasks : x.task_name \in keep_posts_of_tasks}}
      task_names == {ti[1] : ti \in info}
      deleted_ids == {t.id : t \in {x \in db.tasks : x.task_name \in task_names}}
      unlinked == {IF p.collection_task_id \in keep_posts_ids
                   THEN [p EXCEPT !.collection_task_id = NULL] ELSE p : p \in db.posts}
  IN [tasks |-> {t \in db.tasks : t.task_name \notin task_names},
      posts |-> {p \in unlinked : p.collection_task_id \notin deleted_ids}]

\* list.remove(t), line 307: the list without its first element equal to t
RECURSIVE RemoveFirst(_, _)
RemoveFirst(list, t) ==
  IF list = <<>> THEN <<>>
  ELSE IF Head(list) = t THEN Tail(list)
  ELSE <<Head(list)>> \o RemoveFirst(Tail(list), t)

\* Variant: the skipped candidates stay in the list.
RemoveNone(list, remove_tasks) == list

RECURSIVE RemoveAll(_, _)
RemoveAll(list, remove_tasks) ==
  IF remove_tasks = <<>> THEN list
  ELSE RemoveAll(RemoveFirst(list, Head(remove_tasks)), Tail(remove_tasks))

\* Lines 280-285: the trailing parts of the names the LIKE query returns.
GroupSuffixes(db, group_prefix) ==
  {removeprefix(tn, group_prefix \o <<"_">>) :
     tn \in {n \in TaskNames(db) : Like(n, group_prefix)}}

\* Lines 289-290: the first index of range(len + 1) that is not in the set
NextIndex(existing_indices) ==
  CHOOSE next_idx \in 0..Cardinality(existing_indices) :
    /\ next_idx \notin existing_indices
    /\ \A j \in 0..(next_idx - 1) : j \in existing_indices

\* Lines 272-299: the loop over the candidates from candidate k on.  st holds
\* the local variables: the list (renamed in place), the dict of used indices
\* per group prefix, to_overwrite, remove_tasks, new_tasks_names, and the
\* exception that ended the loop.
RECURSIVE ResolveExisting(_, _, _, _)
ResolveExisting(db, existing_names, k, st) ==
  IF k > Len(st.collection_tasks) \/ st.raised # "none" THEN st
  ELSE
    LET t == st.collection_tasks[k]
        cached == st.group_prefix_existing_tasks
        query == t.group_prefix \notin DOMAIN cached \/ cached[t.group_prefix] = {}
        suffixes == GroupSuffixes(db, t.group_prefix)
        existing_indices == IF query THEN {IntValue(x) : x \in suffixes}
                            ELSE cached[t.group_prefix]
        next_idx == NextIndex(existing_indices)
        new_t_name == t.group_prefix \o <<"_">> \o Str(next_idx)
    IN IF t.task_name \notin existing_names
       THEN ResolveExisting(db, existing_names, k + 1, st)
       ELSE IF t.overwrite
       THEN ResolveExisting(db, existing_names, k + 1,
              [st EXCEPT !.to_overwrite = Append(@, <<t.task_name, t.keep_old_posts>>)])
       ELSE IF t.force_new_index
       THEN IF query /\ \E x \in suffixes : ~IsIntLiteral(x)
            THEN [st EXCEPT !.raised = "ValueError"]
            ELSE ResolveExisting(db, existing_names, k + 1,
                   [st EXCEPT
                      !.collection_tasks[k].task_name = new_t_name,
                      !.group_prefix_existing_tasks =
                         [g \in DOMAIN cached \cup {t.group_prefix} |->
                            IF g = t.group_prefix THEN existing_indices \cup {next_idx}
                            ELSE cached[g]],
                      !.new_tasks_names = Append(@, new_t_name)])
       ELSE ResolveExisting(db, existing_names, k + 1,
              [st EXCEPT !.remove_tasks = Append(@, t)])

\* Lines 310-323: one INSERT per task of the list and a commit.  uq_task_name
\* fails the flush when a name is stored already or occurs twice in the list.
TaskNameViolation(tasks, new) ==
  \/ \E i \in 1..Len(new) : new[i].task_name \in {t.task_name : t \in tasks}
  \/ \E i, j \in 1..Len(new) : i < j /\ new[i].task_name = new[j].task_name

RECURSIVE InsertTasks(_, _)
InsertTasks(tasks, new) ==
  IF new = <<>> THEN tasks
  ELSE InsertTasks(
         tasks \cup {TaskRow(NextId(tasks), Head(new).task_name, Head(new).status,
                             CollectConfigDumpSparse(Head(new).collection_config),
                             NULL, Head(new).transient)},
         Tail(new))

\* add_db_collection_tasks, lines 262-328, on the store db, whose comments refer
\* to the posts comment_post_ids: the store it leaves,
\* the list as the loop left it (resolved), the returned names or the exception.
AddTasks(db, comment_post_ids, collection_tasks) ==
  LET task_names == {collection_tasks[i].task_name : i \in 1..Len(collection_tasks)}
      existing_names == check_task_names_exists(db, task_names)
      NotExisting(t) == t.task_name \notin existing_names
      new_names == SelectSeq(collection_tasks, NotExisting)
      st0 == [collection_tasks |-> collection_tasks,
              group_prefix_existing_tasks |-> [g \in {} |-> {}],
              to_overwrite |-> <<>>, remove_tasks |-> <<>>,
              new_tasks_names |-> [i \in 1..Len(new_names) |-> new_names[i].task_name],
              raised |-> "none"]
      st == IF existing_names # {} THEN ResolveExisting(db, existing_names, 1, st0) ELSE st0
      deleted == IF st.to_overwrite # <<>> THEN delete_tasks(db, st.to_overwrite) ELSE db
      kept == RemoveAll(st.collection_tasks, st.remove_tasks)
  IN IF st.raised # "none"
     THEN [db |-> db, resolved |-> st.collection_tasks, raised |-> st.raised, ret |-> <<>>]
     ELSE IF st.to_overwrite # <<>>
             /\ DeleteViolatesForeignKey(db, st.to_overwrite, comment_post_ids)
     THEN [db |-> db, resolved |-> st.collection_tasks,
           raised |-> "IntegrityError", ret |-> <<>>]
     ELSE IF TaskNameViolation(deleted.tasks, kept)
     THEN [db |-> deleted, resolved |-> st.collection_tasks,
           raised |-> "IntegrityError", ret |-> <<>>]
     ELSE [db |-> [deleted EXCEPT !.tasks = InsertTasks(@, kept)],
           resolved |-> st.collection_tasks, raised |-> "none", ret |-> st.new_tasks_names]

add_db_collection_tasks ==
  /\ AtRest
  /\ calls < MaxCalls
  /\ \E collection_tasks \in TaskInputs :
       LET r == AddTasks(target, comments, collection_tasks)
       IN /\ target' = r.db
          /\ call' = [op |-> "add_db_collection_tasks", args |-> collection_tasks,
                      resolved |-> r.resolved, raised |-> r.raised, ret |-> r.ret]
  /\ pre' = target
  /\ calls' = calls + 1
  /\ UNCHANGED <<source, sess, pc, remaining, cur, stats, runs, completed, comments, registry, origin>>

\* The task names a store of the reconciler may hold, in the order of their ids.
StoreNames == <<G0, G2, GX, TaskA>>

\* Stores for the reconciler: any of the names as tasks with ids in list order;
\* the posts stored belong to the first task, which is INIT or was collected
\* (DONE, with its counters set); the other tasks are INIT.
InitTasks ==
  /\ \E S \in SUBSET {StoreNames[i] : i \in 1..Len(StoreNames)}, present \in SUBSET Pids,
        collected \in BOOLEAN :
       LET In(n) == n \in S
           names == SelectSeq(StoreNames, In)
           Row(i) == IF i = 1 /\ collected
                     THEN TaskRow(i, names[i], "DONE", Config1, Cardinality(present), FALSE)
                     ELSE TaskRow(i, names[i], "INIT", Config1, NULL, FALSE)
       IN target =
            [tasks |-> {Row(i) : i \in 1..Len(names)},
             posts |-> IF names = <<>> THEN {} ELSE {PostRow(p, 1) : p \in present}]
  /\ source = [tasks |-> {}, posts |-> {}]
  /\ sess = ClosedSession
  /\ pc = "idle"
  /\ remaining = {}
  /\ cur = NoCur
  /\ stats = NoStats
  /\ pre = target
  /\ runs = 0
  /\ completed = 0
  /\ call = NoCall
  /\ calls = 0
  /\ comments \in SUBSET {p.id : p \in target.posts}
  /\ registry = NoRegistry
  /\ origin = target

NextTasks == add_db_collection_tasks

SpecTasks == InitTasks /\ [][NextTasks]_vars

\* ================================================== the meta database (registry)
\* meta_database.py: the table platform_databases, the database files on the
\* disk, and the status report that runs one job per database in a thread pool.

MaxDbId == 3         \* add_db is taken while the next row id is at most MaxDbId
MaxFileSize == 2     \* a database file has a size in 1..MaxFileSize

max_workers == 4     \* ThreadPoolExecutor(max_workers=min(len(dbs), 4))

DbNames == {"a", "b"}
DbPaths == {"p1", "p2"}

\* DBPlatformDatabase with the defaults of MetaDatabaseContentModel for the
\* two fields of content that the status report reads.
DBPlatformDatabase(id, name, db_path) ==
  [id |-> id, name |-> name, db_path |-> db_path, file_size |-> 0, last_modified |-> NULL]

\* An identifier is an int (a PlatformDatabaseModel is replaced by its id) or a str.
ById(i) == [kind |-> "int", id |-> i, name |-> ""]
ByName(n) == [kind |-> "str", id |-> NULL, name |-> n]
Identifiers == {ById(i) : i \in 1..MaxDbId} \cup {ByName(n) : n \in DbNames}

\* session.query(DBPlatformDatabase).where(id == id_) or .where(name == id_)
QueryDb(dbs, id_) ==
  IF id_.kind = "int" THEN {d \in dbs : d.id = id_.id} ELSE {d \in dbs : d.name = id_.name}

Min(a, b) == IF a <= b THEN a ELSE b

\* Query.one_or_none(): the row, None, or MultipleResultsFound.
one_or_none(rows) ==
  [raised |-> IF Cardinality(rows) > 1 THEN "MultipleResultsFound" ELSE "none",
   obj |-> IF Cardinality(rows) = 1 THEN rows ELSE {}]

\* Query.one(): the row, or NoResultFound, or MultipleResultsFound.
one(rows) ==
  [raised |-> IF rows = {} THEN "NoResultFound"
              ELSE IF Cardinality(rows) > 1 THEN "MultipleResultsFound" ELSE "none",
   obj |-> IF Cardinality(rows) = 1 THEN rows ELSE {}]

\* _get_obj: runs the query, then `return None` whatever the query found.
_get_obj(dbs, id_) == [raised |-> one_or_none(QueryDb(dbs, id_)).raised, obj |-> {}]

\* get_obj: NoResultFound becomes ValueError.
get_obj(dbs, id_) ==
  LET q == one(QueryDb(dbs, id_))
  IN [raised |-> IF q.raised = "NoResultFound" THEN "ValueError" ELSE q.raised, obj |-> q.obj]

\* edit(id_, func): load the row, apply func, commit. The functions passed set
\* attributes of the row; they are given as the record of the values they set.
edit(dbs, id_, func) ==
  LET g == get_obj(dbs, id_)
  IN IF g.raised # "none" THEN [dbs |-> dbs, raised |-> g.raised]
     ELSE LET db_obj == CHOOSE d \in g.obj : TRUE
              edited == [f \in DOMAIN db_obj |->
                           IF f \in DOMAIN func THEN func[f] ELSE db_obj[f]]
          IN [dbs |-> (dbs \ {db_obj}) \cup {edited}, raised |-> "none"]

RegistryIdle == pc = "idle"

\* Path(...).exists()
FileExists(db_path) == registry.files[db_path] # NULL

\* has(id_): True iff _get_obj gave a row.
has ==
  /\ RegistryIdle
  /\ \E id_ \in Identifiers :
       LET r == _get_obj(registry.dbs, id_)
       IN call' = [op |-> "has", id_ |-> id_, raised |-> r.raised, ret |-> r.obj # {}]
  /\ UNCHANGED <<source, target, sess, pc, remaining, cur, stats, pre, runs, completed,
                 calls, comments, registry, origin>>

\* add_db(db): insert a row; db_path is unique, an IntegrityError gives False.
add_db ==
  /\ RegistryIdle
  /\ NextId(registry.dbs) <= MaxDbId
  /\ \E name \in DbNames, db_path \in DbPaths :
       IF \E d \in registry.dbs : d.db_path = db_path
       THEN /\ call' = [op |-> "add_db", name |-> name, db_path |-> db_path, ret |-> FALSE]
            /\ UNCHANGED registry
       ELSE /\ registry' = [registry EXCEPT !.dbs =
                              @ \cup {DBPlatformDatabase(NextId(@), name, db_path)}]
            /\ call' = [op |-> "add_db", name |-> name, db_path |-> db_path, ret |-> TRUE]
  /\ UNCHANGED <<source, target, sess, pc, remaining, cur, stats, pre, runs, completed,
                 calls, comments, origin>>

\* rename(id_, new_name): edit the row; name has no unique constraint.
rename ==
  /\ RegistryIdle
  /\ \E id_ \in Identifiers, new_name \in DbNames :
       LET _rename == [name |-> new_name]
           r == edit(registry.dbs, id_, _rename)
       IN /\ registry' = [registry EXCEPT !.dbs = r.dbs]
          /\ call' = [op |-> "rename", id_ |-> id_, new_name |-> new_name,
                      raised |-> r.raised]
  /\ UNCHANGED <<source, target, sess, pc, remaining, cur, stats, pre, runs, completed,
                 calls, comments, origin>>

\* delete(id_): the row is deleted and committed; then the answer to the prompt
\* decides: "y" unlinks the file (FileNotFoundError when it is missing), any
\* other answer reaches full_path.db_path, an AttributeError, and the file stays.
delete ==
  /\ RegistryIdle
  /\ \E id_ \in Identifiers, delete_file \in {"y", "n"} :
       LET g == get_obj(registry.dbs, id_)
           db == CHOOSE d \in g.obj : TRUE
       IN IF g.raised # "none"
          THEN /\ call' = [op |-> "delete", id_ |-> id_, raised |-> g.raised]
               /\ UNCHANGED registry
          ELSE /\ registry' =
                    [dbs |-> registry.dbs \ {db},
                     files |-> IF delete_file = "y"
                               THEN [registry.files EXCEPT ![db.db_path] = NULL]
                               ELSE registry.files]
               /\ call' = [op |-> "delete", id_ |-> id_,
                           raised |-> IF delete_file # "y" THEN "AttributeError"
                                      ELSE IF FileExists(db.db_path) THEN "none"
                                      ELSE "FileNotFoundError"]
  /\ UNCHANGED <<source, target, sess, pc, remaining, cur, stats, pre, runs, completed,
                 calls, comments, origin>>

\* purge(simulate): delete every row whose file does not exist.
purge ==
  /\ RegistryIdle
  /\ \E simulate \in BOOLEAN :
       /\ registry' = [registry EXCEPT !.dbs =
                         IF simulate THEN @ ELSE {d \in @ : FileExists(d.db_path)}]
       /\ call' = [op |-> "purge", simulate |-> simulate]
  /\ UNCHANGED <<source, target, sess, pc, remaining, cur, stats, pre, runs, completed,
                 calls, comments, origin>>

\* The disk outside the program: a database file appears, grows, shrinks or is lost.
DiskChange ==
  /\ RegistryIdle
  /\ \E db_path \in DbPaths, size \in {NULL} \cup 1..MaxFileSize :
       /\ size # registry.files[db_path]
       /\ registry' = [registry EXCEPT !.files[db_path] = size]
  /\ UNCHANGED <<source, target, sess, pc, remaining, cur, stats, pre, runs, completed,
                 call, calls, comments, origin>>

\* ---- general_databases_status
Job(db, at) == [db |-> db, at |-> at, file_size |-> NULL]

Running(jobs) == {j \in jobs : j.at \in {"get_db_status", "update_content"}}

\* dbs = self.get_dbs(); ThreadPoolExecutor(max_workers=min(len(dbs), 4)) raises
\* ValueError for max_workers = 0; otherwise every job is submitted.
general_databases_status ==
  /\ RegistryIdle
  /\ \E force_refresh \in BOOLEAN :
       LET dbs == registry.dbs
           workers == Min(Cardinality(dbs), max_workers)
       IN IF workers <= 0
          THEN /\ call' = [op |-> "general_databases_status", force_refresh |-> force_refresh,
                           workers |-> workers, jobs |-> {}, raised |-> "ValueError"]
               /\ pc' = pc
          ELSE /\ call' = [op |-> "general_databases_status", force_refresh |-> force_refresh,
                           workers |-> workers, jobs |-> {Job(d, "queued") : d \in dbs},
                           raised |-> "none"]
               /\ pc' = "pool"
  /\ UNCHANGED <<source, target, sess, remaining, cur, stats, pre, runs, completed,
                 calls, comments, registry, origin>>

\* A free worker of the pool takes a queued job.
JobStart ==
  /\ pc = "pool"
  /\ Cardinality(Running(call.jobs)) < call.workers
  /\ \E j \in call.jobs :
       /\ j.at = "queued"
       /\ call' = [call EXCEPT !.jobs = (@ \ {j}) \cup {[j EXCEPT !.at = "get_db_status"]}]
  /\ UNCHANGED <<source, target, sess, pc, remaining, cur, stats, pre, runs, completed,
                 calls, comments, registry, origin>>

\* get_db_status(db) up to the decision: a missing file ends the job; a changed
\* size, force_refresh or no last_modified lead to calc_db_content.
JobStatus ==
  /\ pc = "pool"
  /\ \E j \in call.jobs :
       /\ j.at = "get_db_status"
       /\ LET size_changed == j.db.file_size # registry.files[j.db.db_path]
              refresh == size_changed \/ call.force_refresh \/ j.db.last_modified = NULL
              after == IF FileExists(j.db.db_path) /\ refresh
                       THEN [j EXCEPT !.at = "update_content",
                                      !.file_size = registry.files[j.db.db_path]]
                       ELSE [j EXCEPT !.at = "done"]
          IN call' = [call EXCEPT !.jobs = (@ \ {j}) \cup {after}]
  /\ UNCHANGED <<source, target, sess, pc, remaining, cur, stats, pre, runs, completed,
                 calls, comments, registry, origin>>

\* self.update_content(db), called by the job: edit(db.id, _update) stores the
\* new content in the row of the registry and commits.
JobUpdateContent ==
  /\ pc = "pool"
  /\ \E j \in call.jobs :
       /\ j.at = "update_content"
       /\ LET _update == [file_size |-> j.file_size, last_modified |-> 1]
              r == edit(registry.dbs, ById(j.db.id), _update)
          IN registry' = [registry EXCEPT !.dbs = r.dbs]
       /\ call' = [call EXCEPT !.jobs = (@ \ {j}) \cup {[j EXCEPT !.at = "done"]}]
  /\ UNCHANGED <<source, target, sess, pc, remaining, cur, stats, pre, runs, completed,
                 calls, comments, origin>>

\* as_completed has yielded every future; the executor is shut down.
StatusReturn ==
  /\ pc = "pool"
  /\ \A j \in call.jobs : j.at = "done"
  /\ pc' = "idle"
  /\ call' = [op |-> "general_databases_status_returned"]
  /\ UNCHANGED <<source, target, sess, remaining, cur, stats, pre, runs, completed,
                 calls, comments, registry, origin>>

InitRegistry ==
  /\ source = [tasks |-> {}, posts |-> {}]
  /\ target = [tasks |-> {}, posts |-> {}]
  /\ sess = ClosedSession
  /\ pc = "idle"
  /\ remaining = {}
  /\ cur = NoCur
  /\ stats = NoStats
  /\ pre = target
  /\ runs = 0
  /\ completed = 0
  /\ call = NoCall
  /\ calls = 0
  /\ comments = {}
  /\ registry = [dbs |-> {}, files |-> [p \in DbPaths |-> NULL]]
  /\ origin = target

NextRegistry ==
  \/ has
  \/ add_db
  \/ rename
  \/ delete
  \/ purge
  \/ DiskChange
  \/ general_databases_status
  \/ JobStart
  \/ JobStatus
  \/ JobUpdateContent
  \/ StatusReturn

SpecRegistry == InitRegistry /\ [][NextRegistry]_vars

\* ==================================================== the operations on one store
\* merge_database, add_db_collection_tasks, delete_tasks and update_task_results
\* called one after the other on the target store.

\* The lists delete_tasks is called with: (task_name, keep_posts) pairs.
KeepInfos ==
  UNION {[1..n -> {TaskA, TaskB, G0} \X BOOLEAN] : n \in 1..MaxTasks}

\* delete_tasks called directly. A comment row that refers to a post the cascade
\* would delete fails the statement; get_session rolls back and re-raises.
delete_tasks_call ==
  /\ AtRest
  /\ calls < MaxCalls
  /\ \E task_names_keep_info \in KeepInfos :
       LET failed == DeleteViolatesForeignKey(target, task_names_keep_info, comments)
       IN /\ target' = IF failed THEN target ELSE delete_tasks(target, task_names_keep_info)
          /\ call' = [op |-> "delete_tasks", args |-> task_names_keep_info,
                      raised |-> IF failed THEN "IntegrityError" ELSE "none"]
  /\ pre' = target
  /\ calls' = calls + 1
  /\ UNCHANGED <<source, sess, pc, remaining, cur, stats, runs, completed, comments,
                 registry, origin>>

\* session.delete(task_record): the relationship posts cascades the delete to
\* the posts of the task.
DeleteTaskRecord(db, task_record) ==
  [tasks |-> db.tasks \ {task_record},
   posts |-> {p \in db.posts : p.collection_task_id # task_record.id}]

\* update_task_results(col_result): a transient task is deleted, any other is
\* set DONE with the counters of the result. session.query(...).get gives None
\* for an id that is not stored, and the statements that follow raise.
update_task_results ==
  /\ AtRest
  /\ calls < MaxCalls
  /\ \E id \in {t.id : t \in target.tasks} \cup {NextId(target.tasks)},
        transient \in BOOLEAN, collected_items \in 0..MaxPid :
       \E added_posts \in 0..collected_items :
         LET found == {t \in target.tasks : t.id = id}
             task_record == CHOOSE t \in found : TRUE
             blocked == \E p \in target.posts :
                          p.collection_task_id = id /\ p.id \in comments
             raised == IF found = {}
                       THEN (IF transient THEN "UnmappedInstanceError" ELSE "AttributeError")
                       ELSE IF transient /\ blocked THEN "IntegrityError" ELSE "none"
         IN /\ target' =
                 IF raised # "none" THEN target
                 ELSE IF transient THEN DeleteTaskRecord(target, task_record)
                 ELSE [target EXCEPT !.tasks =
                         (@ \ {task_record}) \cup
                         {[task_record EXCEPT !.status = "DONE",
                                              !.found_items = collected_items,
                                              !.added_items = added_posts]}]
            /\ call' = [op |-> "update_task_results", id |-> id, transient |-> transient,
                        raised |-> raised]
  /\ pre' = target
  /\ calls' = calls + 1
  /\ UNCHANGED <<source, sess, pc, remaining, cur, stats, runs, completed, comments,
                 registry, origin>>

InitStore ==
  /\ \E own \in [Pids -> {1, 2}] : source = SourceStore(TRUE, "DONE", own)
  /\ \E hasA \in BOOLEAN, hasB \in BOOLEAN, present \in SUBSET Pids :
       target = TargetStore(hasA, hasB, "INIT", NULL, present)
  /\ sess = ClosedSession
  /\ pc = "idle"
  /\ remaining = {}
  /\ cur = NoCur
  /\ stats = NoStats
  /\ pre = target
  /\ runs = 0
  /\ completed = 0
  /\ call = NoCall
  /\ calls = 0
  /\ comments \in SUBSET {p.id : p \in target.posts}
  /\ registry = NoRegistry
  /\ origin = target

NextStore ==
  \/ MergeBegin
  \/ MergeFilter
  \/ MergeProcess
  \/ MergeFinish
  \/ add_db_collection_tasks
  \/ delete_tasks_call
  \/ update_task_results

SpecStore == InitStore /\ [][NextStore]_vars

\* ============================================ safe_submit_posts of package databases
\* src/databases/db_mgmt.py keeps an older DatabaseManager whose safe_submit_posts
\* goes round its loop after an IntegrityError.

\* filter_posts_with_existing_post_ids(posts, self): the manager is bound to the
\* parameter session, and session_.execute is looked up on a DatabaseManager,
\* which has no such attribute.
FilterWithManager(posts, stored) == [raised |-> "AttributeError", posts |-> <<>>]

\* safe_submit_posts is called: submit_posts = posts, the loop is entered.
safe_submit_posts_databases ==
  /\ AtRest
  /\ \E pids \in PostInputs, tid \in {NULL} \cup TaskIds(target) :
       call' = [op |-> "databases.safe_submit_posts", posts |-> PostList(pids, tid),
                submit_posts |-> PostList(pids, tid), attempts |-> 0, raised |-> "none"]
  /\ pc' = "submit_posts"
  /\ UNCHANGED target
  /\ MergeIdle

\* One round of the loop up to the outcome of submit_posts: the list is
\* returned, or the IntegrityError is caught.
SubmitAttempt ==
  /\ pc = "submit_posts"
  /\ IF UniqueViolation(target.posts, call.submit_posts)
     THEN /\ call' = [call EXCEPT !.attempts = @ + 1]
          /\ pc' = "except_integrity"
          /\ UNCHANGED target
     ELSE /\ call' = [op |-> "databases.safe_submit_posts", ret |-> call.submit_posts,
                      attempts |-> call.attempts + 1, raised |-> "none"]
          /\ pc' = "idle"
          /\ target' = [target EXCEPT !.posts = InsertPosts(@, call.submit_posts)]
  /\ MergeIdle

\* The handler of the IntegrityError: the filter is called; what it returns is
\* submitted in the next round, what it raises leaves safe_submit_posts.
SubmitExcept ==
  /\ pc = "except_integrity"
  /\ LET r == FilterWithManager(call.posts, target.posts)
     IN IF r.raised # "none"
        THEN /\ call' = [op |-> "databases.safe_submit_posts", ret |-> <<>>,
                         attempts |-> call.attempts, raised |-> r.raised]
             /\ pc' = "idle"
        ELSE /\ call' = [call EXCEPT !.submit_posts = r.posts]
             /\ pc' = "submit_posts"
  /\ UNCHANGED target
  /\ MergeIdle

NextSubmit ==
  \/ SafeSubmitPosts
  \/ SafeSubmitFilter
  \/ safe_submit_posts_databases
  \/ SubmitAttempt
  \/ SubmitExcept
  \/ ExternalInsert

SpecSubmit == InitWriters /\ [][NextSubmit]_vars

\* ==================================================================== claims
NoDuplicatePlatformId(db) ==
  \A p, q \in db.posts : p.platform_id = q.platform_id => p = q

\* The source posts the generator yields for source task s, and those of them
\* whose platform_id the target did not hold when the merge began.
SourcePostsOf(s) == {p \in source.posts : p.collection_task_id = s.id}
PassedOf(s) == {p \in SourcePostsOf(s) : p.platform_id \notin PlatformIds(pre.posts)}
SharedTasks == {st \in source.tasks \X pre.tasks : st[1].task_name = st[2].task_name}
NewSourceTasks ==
  {s \in source.tasks : \A t \in pre.tasks : t.task_name # s.task_name}

\* C1: a merge run after a completed run of the same source into the same target
\* completes and leaves the posts of the target as they were (same rows, hence
\* same count and same platform_ids), and the target never holds two posts with
\* one platform_id.
C1_Idempotent ==
  /\ NoDuplicatePlatformId(target)
  /\ (completed >= 1 => pc # "failed")
  /\ (pc = "done" /\ completed >= 2 => target.posts = pre.posts)

C1_Witness ==
  /\ pc = "done" /\ completed >= 2
  /\ \E p \in target.posts : p.orig_db_conf # <<>>

\* C2 as claimed: after a completed merge every source post whose platform_id
\* was absent from the target is in the target, owned by the target task named
\* like the post's source task.
C2_EverySourcePost ==
  pc = "done" =>
    \A p \in source.posts :
      p.platform_id \notin PlatformIds(pre.posts) =>
        \E q \in target.posts, s \in source.tasks, t \in target.tasks :
          /\ q.platform_id = p.platform_id
          /\ s.id = p.collection_task_id
          /\ t.task_name = s.task_name
          /\ q.collection_task_id = t.id

\* C2 amended: the same for every source post that is owned by a source task
\* (collection_task_id not NULL); orphaned posts are not read by the merge.
C2_Completeness ==
  pc = "done" =>
    \A p \in source.posts :
      (p.collection_task_id # NULL /\ p.platform_id \notin PlatformIds(pre.posts)) =>
        \E q \in target.posts, s \in source.tasks, t \in target.tasks :
          /\ q.platform_id = p.platform_id
          /\ s.id = p.collection_task_id
          /\ t.task_name = s.task_name
          /\ q.collection_task_id = t.id

C2_Witness ==
  /\ pc = "done"
  /\ \E p \in source.posts, t \in pre.tasks, s \in source.tasks :
       /\ p.collection_task_id = s.id
       /\ t.task_name = s.task_name
       /\ p.platform_id \notin PlatformIds(pre.posts)
       /\ \E q \in target.posts : q.platform_id = p.platform_id

\* C3: after a merge into an existing task, found_items and added_items are the
\* pre-merge values (NULL as 0) plus the number of the task's posts that passed
\* deduplication; and no step ever lowers a counter of a target task.
C3_Added ==
  pc = "done" =>
    \A st \in SharedTasks :
      \E t \in target.tasks :
        /\ t.id = st[2].id
        /\ t.found_items = OrZero(st[2].found_items) + Cardinality(PassedOf(st[1]))
        /\ t.added_items = OrZero(st[2].added_items) + Cardinality(PassedOf(st[1]))

C3_NeverLower ==
  \A t \in target.tasks : \A u \in target'.tasks :
    u.id = t.id =>
      /\ OrZero(u.found_items) >= OrZero(t.found_items)
      /\ OrZero(u.added_items) >= OrZero(t.added_items)

C3_Counters == []C3_Added /\ [][C3_NeverLower]_vars

C3_Witness ==
  /\ pc = "done"
  /\ \E st \in SharedTasks :
       /\ st[2].found_items = NULL
       /\ PassedOf(st[1]) # {}
       /\ SourcePostsOf(st[1]) # PassedOf(st[1])

\* C4: a merge into an existing task sets its status to DONE when the source
\* task is DONE and leaves it unchanged otherwise; a DONE target task never
\* becomes non-DONE.
C4_Promoted ==
  pc = "done" =>
    \A st \in SharedTasks :
      \E t \in target.tasks :
        /\ t.id = st[2].id
        /\ t.status = IF st[1].status = "DONE" THEN "DONE" ELSE st[2].status

C4_DoneStays ==
  \A t \in target.tasks : \A u \in target'.tasks :
    (u.id = t.id /\ t.status = "DONE") => u.status = "DONE"

C4_Status == []C4_Promoted /\ [][C4_DoneStays]_vars

C4_Witness ==
  /\ pc = "done"
  /\ \E st \in SharedTasks : st[1].status = "INIT" /\ st[2].status = "DONE"
  /\ \E st \in SharedTasks : st[1].status = "DONE" /\ st[2].status = "INIT"

\* C6: for a source task whose name the target did not hold, the merge leaves
\* exactly one target task of that name, with the source task's platform,
\* collection_config (as the validated CollectConfig), status and transient
\* flag, found_items = added_items = number of its posts that passed
\* deduplication, and exactly those posts pointing to it.
C6_TaskCreated ==
  pc = "done" =>
    \A s \in NewSourceTasks :
      LET made == {t \in target.tasks : t.task_name = s.task_name}
      IN /\ Cardinality(made) = 1
         /\ \A t \in made :
              /\ t.platform = s.platform
              /\ CollectConfigValidate(t.collection_config)
                   = CollectConfigValidate(s.collection_config)
              /\ t.status = s.status
              /\ t.transient = s.transient
              /\ t.found_items = Cardinality(PassedOf(s))
              /\ t.added_items = Cardinality(PassedOf(s))
              /\ {q.platform_id : q \in {r \in target.posts : r.collection_task_id = t.id}}
                   = PlatformIds(PassedOf(s))
              /\ Cardinality({r \in target.posts : r.collection_task_id = t.id})
                   = Cardinality(PassedOf(s))

\* Scenario A at the model's size: empty target, a DONE source task owning
\* every platform id.
C6_Witness ==
  /\ pc = "done"
  /\ pre.tasks = {} /\ pre.posts = {}
  /\ \E s \in source.tasks :
       /\ s.status = "DONE"
       /\ PlatformIds(SourcePostsOf(s)) = Pids
       /\ \E t \in target.tasks :
            /\ t.task_name = s.task_name /\ t.status = "DONE"
            /\ t.found_items = MaxPid /\ t.added_items = MaxPid
            /\ Cardinality({r \in target.posts : r.collection_task_id = t.id}) = MaxPid

\* C7: the stats returned by a merge: posts read from the source tasks, posts
\* inserted into the target, read posts whose platform_id the target held,
\* source tasks whose name the target held, target tasks created.
ReadPosts == {p \in source.posts : \E s \in source.tasks : p.collection_task_id = s.id}

C7_Stats ==
  pc = "done" =>
    /\ stats.total_posts_found = Cardinality(ReadPosts)
    /\ stats.new_posts_added = Cardinality(target.posts \ pre.posts)
    /\ stats.duplicated_posts_skipped =
         Cardinality({p \in ReadPosts : p.platform_id \in PlatformIds(pre.posts)})
    /\ stats.existing_tasks_updated = Cardinality(SharedTasks)
    /\ stats.new_tasks_created = Cardinality(target.tasks) - Cardinality(pre.tasks)

\* Scenario B at the model's size: the target task holds one post and counts it,
\* the source task of the same name holds that post and one more.
C7_Witness ==
  /\ pc = "done"
  /\ Cardinality(source.tasks) = 1
  /\ \E st \in SharedTasks :
       /\ st[1].status = "DONE" /\ st[2].status = "DONE"
       /\ st[2].found_items = Cardinality(pre.posts)
       /\ Cardinality(pre.posts) = 1
       /\ PlatformIds(pre.posts) \subseteq PlatformIds(SourcePostsOf(st[1]))
       /\ Cardinality(SourcePostsOf(st[1])) = 2
       /\ \E t \in target.tasks : t.id = st[2].id /\ t.found_items = 2
  /\ stats.new_posts_added = 1
  /\ stats.existing_tasks_updated = 1
  /\ stats.new_tasks_created = 0

\* C8: every post a merge inserted carries orig_db_conf = (reference of the
\* source store, id of the post's task in the source store).
C8_Provenance ==
  pc = "done" =>
    \A q \in target.posts \ pre.posts :
      \E p \in source.posts :
        /\ p.platform_id = q.platform_id
        /\ q.orig_db_conf = <<SourceRef, p.collection_task_id>>

\* C5: whatever sequence of merges and post submissions runs, with another
\* writer inserting between a deduplication check and the write that follows
\* it, no two posts of a committed store have the same platform_id.
C5_GloballyUnique ==
  /\ Cardinality(PlatformIds(target.posts)) = Cardinality(target.posts)
  /\ Cardinality(PlatformIds(source.posts)) = Cardinality(source.posts)

\* A merge whose deduplication check was overtaken by the other writer: the
\* flush raised and the merge was rolled back.
C5_Witness ==
  /\ pc = "failed"
  /\ \E p \in target.posts \ pre.posts : p.orig_db_conf = <<>>
  /\ \E p \in source.posts : p.platform_id \in PlatformIds(target.posts \ pre.posts)

\* C10: check_for_conflicts counts every task name that is in both stores with
\* configs of different hash as a config conflict, and the call writes to
\* neither store: no post is copied and no task row is changed.
C10_Counted ==
  call.op = "check_for_conflicts" =>
    call.diff_config =
      Cardinality({n \in TaskNames(source) \cap TaskNames(target) :
        \E s \in source.tasks, t \in target.tasks :
          /\ s.task_name = n
          /\ t.task_name = n
          /\ CollectConfigValidate(s.collection_config)
               # CollectConfigValidate(t.collection_config)})

C10_NoWrite == call' # call /\ call'.op = "check_for_conflicts" => UNCHANGED <<source, target>>

IsIndexed(name, group_prefix) ==
  /\ StartsWith(name, group_prefix \o <<"_">>)
  /\ Len(name) > Len(group_prefix) + 1
  /\ \A i \in (Len(group_prefix) + 2)..Len(name) : IsDigit(name[i])

UsedIndices(db, group_prefix) ==
  {IntValue(SubSeq(n, Len(group_prefix) + 2, Len(n))) :
     n \in {x \in TaskNames(db) : IsIndexed(x, group_prefix)}}

SmallestUnused(used) == CHOOSE i \in 0..Cardinality(used) :
  i \notin used /\ \A j \in 0..(i - 1) : j \in used

\* A candidate that is renamed: force_new_index, no overwrite, its name stored.
Forced(c) == c.force_new_index /\ ~c.overwrite /\ c.task_name \in TaskNames(pre)

\* C9: a candidate with force_new_index and without overwrite whose name is
\* stored already is renamed to <group_prefix>_<i>, i the smallest non-negative
\* integer that is the index of no stored name <group_prefix>_<integer>, and a
\* new task of that name is inserted.  Stated for the first such candidate of a
\* group in the list, for which the stored names are those before the call.
C9_GroupIndexing ==
  call.op = "add_db_collection_tasks" =>
    \A k \in 1..Len(call.args) :
      LET c == call.args[k]
          new_name == c.group_prefix \o <<"_">>
                        \o Str(SmallestUnused(UsedIndices(pre, c.group_prefix)))
          first == \A j \in 1..(k - 1) :
                     ~(Forced(call.args[j]) /\ call.args[j].group_prefix = c.group_prefix)
      IN (Forced(c) /\ first) =>
           /\ call.raised = "none"
           /\ call.resolved[k].task_name = new_name
           /\ \E t \in target.tasks \ pre.tasks : t.task_name = new_name

\* The source posts a merge reads: those owned by a source task.
OwnedSourcePosts == {p \in source.posts : p.collection_task_id \in TaskIds(source)}

\* C11: when the write of a batch fails on the uniqueness of platform_id because
\* another writer inserted a colliding id after the deduplication check, the
\* batch is filtered again and resubmitted once: a merge that met the race ends
\* with every source post it read stored in the target under its platform_id.
C11_RaceRecovery ==
  pc = "failed" => \A p \in OwnedSourcePosts : p.platform_id \in PlatformIds(target.posts)

\* C12: after an IntegrityError safe_submit_posts filters the list and submits
\* the rest again: every post of the list it returns is stored when it returns.
C12_ReturnedAreStored ==
  (call.op = "safe_submit_posts" /\ "ret" \in DOMAIN call) =>
    \A i \in 1..Len(call.ret) : call.ret[i].platform_id \in PlatformIds(target.posts)

\* The call of add_db_collection_tasks returned.
Returned == call.op = "add_db_collection_tasks" /\ call.raised = "none"

TaskNamed(db, name) == {t \in db.tasks : t.task_name = name}

\* The row add_db_collection_tasks writes for candidate c (the id left open).
IsRowOf(t, c) ==
  /\ t.task_name = c.task_name
  /\ t.platform = c.platform
  /\ CollectConfigValidate(t.collection_config) = c.collection_config
  /\ t.status = c.status
  /\ t.transient = c.transient
  /\ t.found_items = NULL
  /\ t.added_items = NULL

\* C13: when add_db_collection_tasks has returned, for a candidate with overwrite
\* and keep_old_posts whose name was stored, the old task is gone: exactly one
\* task has the name, it is the row of the candidate and owns no post, and every
\* post the old task owned is still stored, with collection_task_id NULL.
C13_OverwriteKeepsPosts ==
  Returned =>
    \A k \in 1..Len(call.args) :
      LET c == call.args[k]
      IN (c.overwrite /\ c.keep_old_posts /\ c.task_name \in TaskNames(pre)) =>
           /\ Cardinality(TaskNamed(target, c.task_name)) = 1
           /\ \A t \in TaskNamed(target, c.task_name) :
                /\ IsRowOf(t, c)
                /\ \A p \in target.posts : p.collection_task_id # t.id
           /\ \A old \in TaskNamed(pre, c.task_name) :
                \A p \in pre.posts :
                  p.collection_task_id = old.id =>
                    [p EXCEPT !.collection_task_id = NULL] \in target.posts

\* A collected task with posts was overwritten by a candidate that keeps them.
C13_Witness ==
  /\ Returned
  /\ \E k \in 1..Len(call.args) :
       /\ call.args[k].overwrite /\ call.args[k].keep_old_posts
       /\ \E old \in TaskNamed(pre, call.args[k].task_name) :
            /\ old.status = "DONE"
            /\ \E p \in pre.posts : p.collection_task_id = old.id
  /\ \E p \in target.posts : p.collection_task_id = NULL

\* A candidate that is skipped: its name is stored, no overwrite, no new index.
Skipped(c) == ~c.overwrite /\ ~c.force_new_index /\ c.task_name \in TaskNames(pre)

PostsOwnedBy(db, tasks) == {p \in db.posts : p.collection_task_id \in {t.id : t \in tasks}}

RetNames == {call.ret[i] : i \in 1..Len(call.ret)}

\* What C14 says of the skipped candidate c: row and posts as before, not returned.
SkipIsNoOp(c) ==
  /\ TaskNamed(target, c.task_name) = TaskNamed(pre, c.task_name)
  /\ PostsOwnedBy(target, TaskNamed(target, c.task_name))
       = PostsOwnedBy(pre, TaskNamed(pre, c.task_name))
  /\ c.task_name \notin RetNames

\* What C14 says of candidate k whose name is not stored: inserted, name unchanged.
InsertedUnchanged(k) ==
  /\ call.resolved[k].task_name = call.args[k].task_name
  /\ \E t \in target.tasks : IsRowOf(t, call.args[k])

\* C14 as stated: when the call has returned, every skipped candidate left its
\* task row and the posts of that task unchanged and is not in the returned
\* list, and every candidate with a name not stored was inserted under its name.
C14_SkipNoOpAnyList ==
  Returned =>
    \A k \in 1..Len(call.args) :
      /\ Skipped(call.args[k]) => SkipIsNoOp(call.args[k])
      /\ call.args[k].task_name \notin TaskNames(pre) => InsertedUnchanged(k)

\* C14, amended: the same, for a skipped candidate whose name no other candidate
\* of the list overwrites; and a list of skipped candidates only returns an empty
\* list and leaves the store as it was.
C14_SkipNoOp ==
  /\ Returned =>
       \A k \in 1..Len(call.args) :
         /\ (/\ Skipped(call.args[k])
             /\ \A j \in 1..Len(call.args) :
                  ~(call.args[j].overwrite /\ call.args[j].task_name = call.args[k].task_name))
              => SkipIsNoOp(call.args[k])
         /\ call.args[k].task_name \notin TaskNames(pre) => InsertedUnchanged(k)
  /\ (/\ call.op = "add_db_collection_tasks"
      /\ \A k \in 1..Len(call.args) : Skipped(call.args[k]))
       => Returned /\ target = pre /\ call.ret = <<>>

\* A list with a skipped candidate, whose task owns posts, and a new candidate.
C14_Witness ==
  /\ Returned
  /\ \E k, j \in 1..Len(call.args) :
       /\ Skipped(call.args[k])
       /\ PostsOwnedBy(pre, TaskNamed(pre, call.args[k].task_name)) # {}
       /\ call.args[j].task_name \notin TaskNames(pre)
       /\ call.args[j].task_name \in TaskNames(target)

\* The names, after renaming, of the tasks the call inserted: the candidates
\* that were not skipped.
InsertedNames ==
  {call.resolved[k].task_name : k \in {i \in 1..Len(call.args) : ~Skipped(call.args[i])}}

\* C15: the list add_db_collection_tasks returns holds exactly the names of the
\* tasks the call inserted: new, renamed and overwriting candidates, none skipped.
C15_ReturnsInserted ==
  Returned => (RetNames = InsertedNames /\ InsertedNames \subseteq TaskNames(target))

\* The (task_name, keep_old_posts) pairs of the overwriting candidates of the call.
OverwriteInfo ==
  LET Overwrites(c) == c.overwrite /\ c.task_name \in TaskNames(pre)
      ow == SelectSeq(call.args, Overwrites)
  IN [i \in 1..Len(ow) |-> <<ow[i].task_name, ow[i].keep_old_posts>>]

\* C16: when the deletion of an overwritten task fails on a foreign key, only
\* that candidate is given up: every other candidate of the list is reconciled,
\* so each candidate with a name not stored is inserted.
C16_FailureIsolated ==
  (/\ call.op = "add_db_collection_tasks"
   /\ call.raised # "ValueError"
   /\ DeleteViolatesForeignKey(pre, OverwriteInfo, comments))
    => \A k \in 1..Len(call.args) :
         call.args[k].task_name \notin TaskNames(pre)
           => call.args[k].task_name \in TaskNames(target)

\* The writes of the merge session: rows flushed inside its transaction, changed
\* task rows and staged posts.  All of them are stored in db.
SessionWritesIn(db) ==
  /\ \A i \in 1..Len(sess.new) :
       \E p \in db.posts : /\ p.platform_id = sess.new[i].platform_id
                           /\ p.collection_task_id = sess.new[i].collection_task_id
                           /\ p.orig_db_conf = sess.new[i].orig_db_conf
  /\ sess.dirty \subseteq db.tasks
  /\ sess.intx => /\ sess.posts \subseteq db.posts
                  /\ \A t \in sess.tasks : t \in db.tasks \/ t.id \in {d.id : d \in sess.dirty}

\* C17, normal exit: the step that leaves the scope of get_session commits every
\* write of the session, sessions opened later read them, the session is closed.
C17_Commit ==
  (pc = "filter" /\ pc' = "done") => SessionWritesIn(target') /\ sess' = ClosedSession

\* C17, exit by an exception: the exception is raised to the caller, the store
\* keeps its committed rows and nothing else, the session is closed.
C17_Rollback ==
  (pc \in {"filter", "process"} /\ pc' = "failed") => target' = target /\ sess' = ClosedSession

\* C17, the scope of insert_posts_with_deduplication: stored or nothing changed.
C17_InsertScope ==
  (pc = "insert_write" /\ pc' = "idle") =>
    IF "raised" \in DOMAIN call'
    THEN target' = target
    ELSE \A i \in 1..Len(call.posts) :
           call.posts[i].platform_id \in PlatformIds(target'.posts)

C17_SessionScope == [][C17_Commit /\ C17_Rollback /\ C17_InsertScope]_vars

\* A merge that was rolled back after another writer's insert, and a later merge
\* of the same source that committed its posts.
C17_Witness ==
  /\ pc = "done"
  /\ runs = 2
  /\ completed = 1
  /\ \E p \in target.posts : p.orig_db_conf # <<>>
  /\ \E t \in target.tasks : t \notin pre.tasks

\* The posts of the list whose platform_id no post of `stored` has, in list order.
AbsentFrom(posts, stored) ==
  LET Absent(p) == \A q \in stored : q.platform_id # p.platform_id
  IN SelectSeq(posts, Absent)

\* C18, in merge_database: the step that runs the deduplication query for the
\* source task it takes up leaves exactly the posts of that task whose
\* platform_id the session does not see in the target, and the store is as before.
C18_InMerge ==
  (pc = "filter" /\ pc' = "process") =>
    /\ \E tid \in remaining \ remaining' :
         cur'.new_posts =
           AbsentFrom(PostsOfTask(source, tid),
                      IF sess'.intx THEN sess'.posts ELSE target.posts)
    /\ target' = target

\* C18, in safe_submit_posts: the list returned after the IntegrityError is
\* exactly the posts of the list whose platform_id is not stored, repeated ones
\* included, and the store is as before.
C18_InSafeSubmit ==
  (pc = "submit_filter" /\ pc' = "idle") =>
    /\ call'.ret = AbsentFrom(call.posts, target.posts)
    /\ target' = target

C18_Deduplicator == [][C18_InMerge /\ C18_InSafeSubmit]_vars

\* A list with one absent platform_id twice came back from the filter of
\* safe_submit_posts with both posts, the store holding other posts.
C18_Witness ==
  /\ call.op = "safe_submit_posts"
  /\ "ret" \in DOMAIN call
  /\ Len(call.ret) = 2
  /\ call.ret[1].platform_id = call.ret[2].platform_id
  /\ call.ret[1].platform_id \notin PlatformIds(target.posts)
  /\ target.posts # {}

\* C19: check_for_conflicts analyses exactly the names in both stores and counts
\* each in one of both-init, both-done, both-other, status-mismatch and
\* config-conflict: the five counters sum to the number of shared names.
C19_Partition ==
  call.op = "check_for_conflicts" =>
    /\ call.num_match = Cardinality(TaskNames(source) \cap TaskNames(target))
    /\ call.diff_both_init + call.diff_both_done + call.diff_both_other_status
         + call.diff_status + call.diff_config
       = Cardinality(TaskNames(source) \cap TaskNames(target))

\* The platform ids of the posts of the task of that name in a store.
PidsOfTaskNamed(db, name) ==
  PlatformIds(PostsOwnedBy(db, {t \in db.tasks : t.task_name = name}))

\* C20: for a shared name with equal config hash, DONE in one store and INIT in
\* the other, check_for_conflicts copies the posts of the DONE side's task to
\* the INIT side: afterwards the INIT side's store holds each of their
\* platform ids, owned by its task of that name.
C20_CatchUp ==
  call.op = "check_for_conflicts" =>
    /\ \A n \in call.source_done_ : PidsOfTaskNamed(source, n) \subseteq PidsOfTaskNamed(target, n)
    /\ \A n \in call.target_done_ : PidsOfTaskNamed(target, n) \subseteq PidsOfTaskNamed(source, n)

\* ---- C21
\* C21: has(id) returns True iff a database with that id or name is
\* registered: whenever has has returned, its result equals "the registry holds
\* a row whose id (for an int) or name (for a str) is the argument", after any
\* sequence of add_db, rename, delete and purge.
C21_HasIffRegistered ==
  (call.op = "has" /\ call.raised = "none")
    => (call.ret <=> QueryDb(registry.dbs, call.id_) # {})

\* ---- C25
\* C25: while general_databases_status runs its jobs, at most min(N, 4) of the N
\* jobs run at the same time, and no step taken while the pool is open writes
\* to a platform store or to the registry.
C25_PoolOnlyReads ==
  [][pc = "pool" =>
       /\ Cardinality(Running(call.jobs)) <= Min(Cardinality(call.jobs), max_workers)
       /\ registry' = registry
       /\ target' = target
       /\ source' = source]_vars

\* ---- C22
\* The posts the open session has inserted and not committed: flushed ones and
\* pending ones.
UncommittedPosts ==
  (IF sess.intx THEN Cardinality(sess.posts \ target.posts) ELSE 0) + Len(sess.new)

\* C22: merge_database writes in batches of at most batch_size posts (ModelBatch
\* in SpecBatches): at no point of a merge are more inserted posts uncommitted,
\* and no commit adds more posts to the target.
C22_BoundedBatches ==
  [][/\ UncommittedPosts' <= ModelBatch
     /\ Cardinality(target'.posts \ target.posts) <= ModelBatch]_vars

\* ---- C23
\* C23: a reconciliation batch is all-or-nothing: when add_db_collection_tasks
\* has raised, the tasks and the posts of the store are exactly what they were
\* before the call.
C23_AllOrNothing ==
  (call.op = "add_db_collection_tasks" /\ call.raised # "none") => target = pre

\* ---- C27
\* The (task_name, keep_posts) pairs of the deletion the last call carried out.
DeletionOfCall ==
  IF call.op = "delete_tasks" /\ call.raised = "none" THEN call.args
  ELSE IF Returned THEN OverwriteInfo ELSE <<>>

\* The names deleted without keeping the posts.
DeletedWithoutKeep ==
  LET info == {DeletionOfCall[i] : i \in 1..Len(DeletionOfCall)}
  IN {ti[1] : ti \in {x \in info : ~x[2]}} \ {ti[1] : ti \in {x \in info : x[2]}}

\* C27: in every committed state of the store each post's collection_task_id is
\* NULL or the id of a stored task, and after a task was deleted or overwritten
\* without keeping its posts none of the posts it owned is left.
C27_ReferentialIntegrity ==
  /\ \A p \in target.posts :
       p.collection_task_id = NULL \/ p.collection_task_id \in TaskIds(target)
  /\ \A n \in DeletedWithoutKeep :
       \A p \in PostsOwnedBy(pre, TaskNamed(pre, n)) :
         \A q \in target.posts : q.id # p.id

\* A task that owned posts was deleted without keeping them, and the store
\* still has a task and a post.
C27_Witness ==
  /\ \E n \in DeletedWithoutKeep : PostsOwnedBy(pre, TaskNamed(pre, n)) # {}
  /\ target.tasks # {}

\* ---- C28
DistinctNames(collection_tasks) ==
  \A i, j \in 1..Len(collection_tasks) :
    i # j => collection_tasks[i].task_name # collection_tasks[j].task_name

\* C28: for a list of candidates with pairwise distinct names the insert of
\* add_db_collection_tasks never violates the uniqueness of task_name: the only
\* IntegrityError such a call can end with is the foreign key failure of the
\* deletion of an overwritten task.
C28_NoNameCollision ==
  (/\ call.op = "add_db_collection_tasks"
   /\ DistinctNames(call.args)
   /\ call.raised = "IntegrityError")
    => DeleteViolatesForeignKey(pre, OverwriteInfo, comments)

\* ---- C29
\* C29: merge_database does not modify its source: no step of a merge, whether
\* the merge completes or fails, changes a task or a post of the source store.
C29_SourceUnchanged == [][source' = source]_vars

\* A merge has failed after it had re-parented and staged a post of the source.
C29_Witness ==
  /\ pc = "failed"
  /\ stats.new_posts_added >= 1
  /\ \E p \in source.posts : p.collection_task_id # NULL

\* ---- C30
\* C30: safe_submit_posts never goes round its loop more than twice, and a call
\* that has ended has returned: no call to any of the safe_submit_posts of the
\* repository counts more than two submission attempts or ends by raising.
C30_Returns ==
  /\ call.op = "safe_submit_posts" => call.attempts <= 2
  /\ call.op = "databases.safe_submit_posts" =>
       (call.attempts <= 2 /\ call.raised = "none")

\* ---- C24
\* A merge has run to completion after an earlier merge was interrupted.
RerunDone == pc = "done" /\ runs > completed

\* C24: after an interrupted merge and a re-run to completion the target holds
\* exactly one post for each platform_id that was in the source or in the
\* original target.
C24_EverySourcePlatformId ==
  RerunDone =>
    /\ NoDuplicatePlatformId(target)
    /\ PlatformIds(target.posts) = PlatformIds(origin.posts) \cup PlatformIds(source.posts)

\* C24 amended: the same for the platform_ids of the source posts owned by a
\* source task, and the posts are those of an uninterrupted merge: the posts of
\* the original target as they were, and each new post under the target task
\* named like its source task. No run is stopped by a platform_id it staged.
C24_RerunCompletes ==
  /\ ~UniqueViolation(View.posts, sess.new)
  /\ RerunDone =>
       /\ NoDuplicatePlatformId(target)
       /\ PlatformIds(target.posts)
            = PlatformIds(origin.posts) \cup PlatformIds(OwnedSourcePosts)
       /\ origin.posts \subseteq target.posts
       /\ \A q \in target.posts \ origin.posts :
            \E p \in source.posts, s \in source.tasks, t \in target.tasks :
              /\ p.platform_id = q.platform_id
              /\ s.id = p.collection_task_id
              /\ t.task_name = s.task_name
              /\ q.collection_task_id = t.id

\* The interrupted merge had committed a batch, and the re-run added the rest.
C24_Witness ==
  /\ RerunDone
  /\ pre.posts # origin.posts
  /\ target.posts # pre.posts

\* ---- C26
\* The posts of target task t that a merge has committed.
MergedPostsOf(t) ==
  {p \in target.posts :
     p.collection_task_id = t.id /\ p.platform_id \notin PlatformIds(origin.posts)}

\* The counters t had before the first merge (a task the merge created had none).
BaseOf(t) ==
  LET old == {o \in origin.tasks : o.task_name = t.task_name}
  IN IF old = {} THEN [found_items |-> 0, added_items |-> 0]
     ELSE LET o == CHOOSE x \in old : TRUE
          IN [found_items |-> OrZero(o.found_items), added_items |-> OrZero(o.added_items)]

\* C26: in every committed state of the target, what the merges have added to
\* found_items and to added_items of a target task is the number of posts they
\* have committed for it; hence after an interrupted merge and a complete re-run
\* each counter is the original value plus the number of the source task's posts
\* that the original target did not hold, as after one uninterrupted merge.
C26_CountersMatchPosts ==
  /\ \A t \in target.tasks :
       /\ OrZero(t.found_items) = BaseOf(t).found_items + Cardinality(MergedPostsOf(t))
       /\ OrZero(t.added_items) = BaseOf(t).added_items + Cardinality(MergedPostsOf(t))
  /\ RerunDone =>
       \A s \in source.tasks :
         \E t \in target.tasks :
           LET passed == {p \in SourcePostsOf(s) :
                            p.platform_id \notin PlatformIds(origin.posts)}
           IN /\ t.task_name = s.task_name
              /\ t.found_items = BaseOf(t).found_items + Cardinality(passed)
              /\ t.added_items = BaseOf(t).added_items + Cardinality(passed)

\* The interrupted merge had committed posts for one task and rolled back posts
\* staged for another; the re-run has completed.
C26_Witness ==
  /\ RerunDone
  /\ \E t \in pre.tasks : \E p \in pre.posts \ origin.posts : p.collection_task_id = t.id
  /\ \E t \in target.tasks :
       /\ \A u \in pre.tasks : u.task_name = t.task_name => OrZero(u.found_items) < t.found_items
       /\ MergedPostsOf(t) # {}

====
